---------------------------- MODULE Spec2Model ----------------------------
(***************************************************************************)
(* A model of src/src/Search.c (DECIPHER): the inverted-index builder      *)
(* (countIndex, updateIndex, the offset prefix sums) and searchIndex: the   *)
(* per-query pipeline (width, hit count, gather, merge sort, adjacency      *)
(* collapse, chain DP, search-space correction, selection, significance     *)
(* filter, traceback) and the parallel driver with its shared abort         *)
(* variable.                                                                *)
(*                                                                         *)
(* C arrays are functions on 0..n-1, with the source's 0-based indices.     *)
(* A double is modelled in fixed point, as an integer number of             *)
(* thousandths: the scores, sqrt and log below are in thousandths.          *)
(***************************************************************************)
EXTENDS Integers, Sequences, FiniteSets, TLC

(***************************************************************************)
(* Basic values                                                            *)
(***************************************************************************)

\* R's NA_INTEGER is INT_MIN
NA_INTEGER == -2147483647 - 1

\* the largest int
INT_MAX == -(NA_INTEGER + 1)

\* the 0-based array holding the elements of the sequence s
Z(s) == [i \in 0..(Len(s) - 1) |-> s[i + 1]]

\* the number of elements of a 0-based array
Size(a) == Cardinality(DOMAIN a)

\* the 0-based arrays of length n over S
Arrays(n, S) == [0..(n - 1) -> S]

\* a + b in a 32-bit signed int that wraps around, for 0 <= a, b <= INT_MAX
\* (s += counts[j])
AddInt32(a, b) ==
    IF b > INT_MAX - a
    THEN (a - INT_MAX - 1) + (b - INT_MAX - 1)
    ELSE a + b

\* size^e
RECURSIVE Pow(_, _)
Pow(b, e) == IF e = 0 THEN 1 ELSE b * Pow(b, e - 1)

\* floor(sqrt(n))
ISqrt(n) == CHOOSE r \in 0..n : r * r <= n /\ (r + 1) * (r + 1) > n

\* the sum of f[i] over i in 0..n-1
RECURSIVE SumTo(_, _)
SumTo(f, n) == IF n = 0 THEN 0 ELSE f[n - 1] + SumTo(f, n - 1)

(***************************************************************************)
(* The index builder                                                       *)
(***************************************************************************)

\* countIndex, one sequence: for (j = 0; j < n; j += s) rans[kmers[j]]++
RECURSIVE CountSeq(_, _, _, _)
CountSeq(rans, kmers, s, j) ==
    IF j >= Size(kmers) THEN rans
    ELSE CountSeq(IF kmers[j] # NA_INTEGER
                  THEN [rans EXCEPT ![kmers[j]] = @ + 1]
                  ELSE rans,
                  kmers, s, j + s)

\* countIndex over the first m sequences of query
RECURSIVE CountIndexTo(_, _, _, _)
CountIndexTo(rans, query, s, m) ==
    IF m = 0 THEN rans
    ELSE CountSeq(CountIndexTo(rans, query, s, m - 1), query[m - 1], s, 0)

countIndex(num, query, step) == CountIndexTo(num, query, step, Size(query))

\* the offset of each k-mer: offset[0] = 0, offset[i] = offset[i-1] + num[i-1]
Offsets(num) == [i \in DOMAIN num |-> SumTo(num, i)]

\* updateIndex, the number of unmasked positions of one sequence
RECURSIVE PosLoop(_, _, _, _, _)
PosLoop(kmers, K, s, j, k) ==
    IF j >= Size(kmers) THEN 0
    ELSE IF kmers[j] # NA_INTEGER
         THEN (IF k = j - s THEN s ELSE K) + PosLoop(kmers, K, s, j + 1, j)
         ELSE PosLoop(kmers, K, s, j + 1, k)

\* an update that writes every position, whatever the step
StepIndLoopByOne(j, s) == j + 1

\* the place after j in the update of the inverted index: j += s
StepIndLoop(j, s) == j + s

\* updateIndex, the writes of one sequence into the inverted index;
\* st is [off, loc, ind, pos, c]

RECURSIVE IndLoop(_, _, _, _)
IndLoop(st, kmers, s, j) ==
    IF j >= Size(kmers) THEN st
    ELSE LET k == kmers[j]
         IN  IF k # NA_INTEGER
             THEN IndLoop([st EXCEPT !.ind[st.off[k]] = st.c,
                                     !.loc[st.off[k]] = j + 1,
                                     !.off[k] = @ + 1],
                          kmers, s, StepIndLoop(j, s))
             ELSE IndLoop(st, kmers, s, StepIndLoop(j, s))

\* updateIndex, one sequence: c++, pos[i] += ..., the index writes.
\* c0 is the processed count the call was given (pos += c).
UpdateSeq(st, kmers, K, s, c0, i) ==
    LET st1 == [st EXCEPT !.c = @ + 1,
                          !.pos[c0 + i] = @ + PosLoop(kmers, K, s, 0, -1 * s - 1)]
    IN  IndLoop(st1, kmers, s, 0)

\* updateIndex over the first m sequences of query
RECURSIVE UpdateIndexTo(_, _, _, _, _, _)
UpdateIndexTo(st, query, K, s, c0, m) ==
    IF m = 0 THEN st
    ELSE UpdateSeq(UpdateIndexTo(st, query, K, s, c0, m - 1),
                   query[m - 1], K, s, c0, m - 1)

updateIndex(st, query, K, step) ==
    UpdateIndexTo(st, query, K, step, st.c, Size(query))

\* the index of a corpus: countIndex, the offsets, updateIndex
BuildIndex(corpus, L, K, step) ==
    LET num == countIndex([c \in 0..(L - 1) |-> 0], corpus, step)
        tot == SumTo(num, L)
        st0 == [off |-> Offsets(num),
                loc |-> [p \in 0..(tot - 1) |-> 0],
                ind |-> [p \in 0..(tot - 1) |-> 0],
                pos |-> [t \in 0..(Size(corpus) - 1) |-> 0],
                c   |-> 0]
        st  == updateIndex(st0, corpus, K, step)
    IN  [num |-> num, loc |-> st.loc, ind |-> st.ind, pos |-> st.pos]

(***************************************************************************)
(* searchIndex: the tables computed at entry                               *)
(***************************************************************************)

\* floor(1000 * sqrt(i)), i <= 16
SqrtMilli ==
    [i \in 0..16 |->
        CHOOSE r \in (1000 * ISqrt(i))..(1000 * (ISqrt(i) + 1)) :
            r * r <= i * 1000000 /\ (r + 1) * (r + 1) > i * 1000000]

\* floor(1000 * ln(n)) for n in 1..32
LnTable ==
    << 0, 693, 1098, 1386, 1609, 1791, 1945, 2079, 2197, 2302, 2397, 2484,
       2564, 2639, 2708, 2772, 2833, 2890, 2944, 2995, 3044, 3091, 3135,
       3178, 3218, 3258, 3295, 3332, 3367, 3401, 3433, 3465 >>

\* log(n) in thousandths, n >= 1
LogMilli(n) == LnTable[n]

\* int maxSep = (int)sqrt((double)L)
MaxSepOf(L) == ISqrt(L)

\* a separation cost with the sign turned
SepCostSubtracted(sC, i) == 0 - sC * SqrtMilli[i]

\* sepCost[i] = sC*sqrt(i), gapCost[i] = gC*sqrt(i), for i in 0..maxSep
SepCost(sC, i) == sC * SqrtMilli[i]
\* a gap cost that takes no account of the length of the gap
GapCostFlat(gC, i) == gC * SqrtMilli[0]
GapCost(gC, i) == gC * SqrtMilli[i]

\* the letter that the pass i (1..K) of the score loop adds for k-mer j:
\* k advances every c = size^(i-1) k-mers and wraps at size
Letter(j, i, size) == (j \div Pow(size, i - 1)) % size

\* the sum of freqs[Letter(j, i)] over the passes i in lo..K
RECURSIVE LetterSum(_, _, _, _, _)
LetterSum(freqs, j, size, i, K) ==
    IF i > K THEN 0
    ELSE freqs[Letter(j, i, size)] + LetterSum(freqs, j, size, i + 1, K)

\* scores[j]: -log(expected k-mer frequency)
Scores(freqs, K, L) ==
    [j \in 0..(L - 1) |-> LetterSum(freqs, j, Size(freqs), 1, K)]

\* addScores[j]: the passes with i > K - step
AddScores(freqs, K, step, L) ==
    [j \in 0..(L - 1) |->
        LetterSum(freqs, j, Size(freqs),
                  IF K - step + 1 < 1 THEN 1 ELSE K - step + 1, K)]

(***************************************************************************)
(* searchIndex: one query, the width and the count of hits                 *)
(***************************************************************************)

\* a width that counts the k-mers, not the positions they cover
WidthStepOne(k, j, K) == 1

\* what an unmasked k-mer at j adds to the width, k being the last
\* unmasked one: if (k == j - 1) width++; else width += K;
WidthStep(k, j, K) == IF k = j - 1 THEN 1 ELSE K

\* the number of unmasked positions of the query; k is the last unmasked one
RECURSIVE WidthLoop(_, _, _, _)
WidthLoop(w, K, j, k) ==
    IF j >= Size(w) THEN 0
    ELSE IF w[j] # NA_INTEGER
         THEN WidthStep(k, j, K) + WidthLoop(w, K, j + 1, j)
         ELSE WidthLoop(w, K, j + 1, k)

Width(w, K) == WidthLoop(w, K, 0, -2)

\* whether the running total has overflowed: if (s < 0)
Overflowed(s) == s < 0

\* the count loop from position j with total s: [counts, s, over]
\* (counts[j] is left unset from the position of the overflow on: 0 here,
\* it is never read)
RECURSIVE CountLoop(_, _, _, _, _)
CountLoop(w, num, j, s, counts) ==
    IF j >= Size(w) THEN [counts |-> counts, s |-> s, over |-> FALSE]
    ELSE IF w[j] = NA_INTEGER
         THEN CountLoop(w, num, j + 1, s, counts)
         ELSE LET s1 == AddInt32(s, num[w[j]])
                  c1 == [counts EXCEPT ![j] = num[w[j]]]
              IN  IF Overflowed(s1)
                  THEN [counts |-> c1, s |-> s1, over |-> TRUE]
                  ELSE CountLoop(w, num, j + 1, s1, c1)

CountHits(w, num) == CountLoop(w, num, 0, 0, [j \in DOMAIN w |-> 0])

(***************************************************************************)
(* searchIndex: the gather                                                 *)
(***************************************************************************)

\* the hits of query position j, in index order
Bucket(w, counts, offset, ix, scores, addScores, j) ==
    [k \in 1..counts[j] |->
        [posQuery  |-> j + 1,
         posTarget |-> ix.loc[offset[w[j]] + k - 1],
         set       |-> ix.ind[offset[w[j]] + k - 1],
         score     |-> scores[w[j]],
         addScore  |-> addScores[w[j]]]]

\* the hits of the query positions below n, bucket after bucket
RECURSIVE GatherTo(_, _, _, _, _, _, _)
GatherTo(w, counts, offset, ix, scores, addScores, n) ==
    IF n = 0 THEN << >>
    ELSE GatherTo(w, counts, offset, ix, scores, addScores, n - 1)
         \o Bucket(w, counts, offset, ix, scores, addScores, n - 1)

Gather(w, counts, ix, scores, addScores) ==
    Z(GatherTo(w, counts, Offsets(ix.num), ix, scores, addScores, Size(w)))

(***************************************************************************)
(* searchIndex: the merge sort on set then posTarget                       *)
(***************************************************************************)

\* a merge that takes the hit of group 2 first on a tie of both keys
TakeFirstStrict(a, b) ==
    IF a.set = b.set THEN a.posTarget < b.posTarget ELSE a.set < b.set

\* whether the merge takes the hit a of group 1 before the hit b of group 2
TakeFirst(a, b) ==
    IF a.set = b.set THEN a.posTarget <= b.posTarget ELSE a.set < b.set

\* the merge of o2[j..e1-1] and o2[k..e2-1]
RECURSIVE MergeRuns(_, _, _, _, _, _)
MergeRuns(h, o2, j, e1, k, e2) ==
    IF j < e1 /\ k < e2
    THEN IF TakeFirst(h[o2[j]], h[o2[k]])
         THEN << o2[j] >> \o MergeRuns(h, o2, j + 1, e1, k, e2)
         ELSE << o2[k] >> \o MergeRuns(h, o2, j, e1, k + 1, e2)
    ELSE IF j < e1 THEN << o2[j] >> \o MergeRuns(h, o2, j + 1, e1, k, e2)
    ELSE IF k < e2 THEN << o2[k] >> \o MergeRuns(h, o2, j, e1, k + 1, e2)
    ELSE << >>

\* one pass, from group1 (which starts at j): sort pairs of groups, then
\* copy what is left (while (p < s) o1[p] = o2[p])
RECURSIVE SortPairs(_, _, _, _, _, _)
SortPairs(h, o2, counts, c, group1, j) ==
    IF group1 + 1 < c
    THEN MergeRuns(h, o2, j, counts[group1], counts[group1], counts[group1 + 1])
         \o SortPairs(h, o2, counts, c, group1 + 2, counts[group1 + 1])
    ELSE [p \in 1..(Size(o2) - j) |-> o2[j + p - 1]]

\* merge pairs of groups: the batch ends after the pass
MergeCounts(counts, c) ==
    [p \in DOMAIN counts |->
        IF 2 * p + 1 < c THEN counts[2 * p + 1]
        ELSE IF 2 * p < c THEN counts[2 * p]
        ELSE counts[p]]

\* while (c > 1): the order after the last pass
RECURSIVE MergePasses(_, _, _, _)
MergePasses(h, o1, counts, c) ==
    IF c > 1
    THEN MergePasses(h, Z(SortPairs(h, o1, counts, c, 0, 0)),
                     MergeCounts(counts, c), (c + 1) \div 2)
    ELSE o1

\* counts[j] += counts[j - 1]: the batch sizes as ends
BatchEnds(counts) == [j \in DOMAIN counts |-> SumTo(counts, j + 1)]

\* the order o1 of the hits after the sort
MergeSort(h, counts) ==
    MergePasses(h, [j \in DOMAIN h |-> j], BatchEnds(counts), Size(counts))

\* reorder all vectors
Reorder(h, o1) == [j \in DOMAIN h |-> h[o1[j]]]


(***************************************************************************)
(* searchIndex: collapse adjacent hits                                     *)
(***************************************************************************)

\* a collapse that takes the query to be staggered by one position, as the
\* width does
AdjacentByOne(deltaQuery, step) == deltaQuery = 1

\* whether the hit c continues the hit j: one step further in the target
\* (deltaTarget == step is known) and in the query
Adjacent(deltaQuery, step) == deltaQuery = step

\* the scan of the hits j..c-1 for the hit that c continues;
\* cs is [k, p, keep, origin, len, score]
RECURSIVE CollapseScan(_, _, _, _, _)
CollapseScan(h, step, cs, c, j) ==
    IF j >= c THEN cs
    ELSE LET deltaTarget == h[c].posTarget - h[j].posTarget
         IN  IF deltaTarget > step
             THEN CollapseScan(h, step, [cs EXCEPT !.k = j + 1], c, j + 1)
             ELSE IF deltaTarget = step
             THEN IF Adjacent(h[c].posQuery - h[j].posQuery, step)
                  THEN [cs EXCEPT !.p = @ - 1,
                                  !.keep[c] = 0,
                                  !.origin[c] = cs.origin[j],
                                  !.len[cs.origin[j]] = @ + step,
                                  !.score[cs.origin[j]] = @ + h[c].addScore]
                  ELSE CollapseScan(h, step, cs, c, j + 1)
             ELSE cs

\* while (c < s - 1), from the current position c
RECURSIVE CollapseFrom(_, _, _, _)
CollapseFrom(h, step, cs, c) ==
    IF c >= Size(h) - 1 THEN cs
    ELSE IF h[cs.k].set = h[c + 1].set
         THEN CollapseFrom(h, step, CollapseScan(h, step, cs, c + 1, cs.k), c + 1)
         ELSE CollapseFrom(h, step, [cs EXCEPT !.k = c + 1], c + 1)

Collapse(h, K, step) ==
    CollapseFrom(h, step,
                 [k      |-> 0,
                  p      |-> Size(h),
                  keep   |-> [j \in DOMAIN h |-> 1],
                  origin |-> [j \in DOMAIN h |-> j],
                  len    |-> [j \in DOMAIN h |-> K],
                  score  |-> [j \in DOMAIN h |-> h[j].score]],
                 0)

\* the positions of the kept hits, in order
RECURSIVE KeptTo(_, _)
KeptTo(keep, n) ==
    IF n = 0 THEN << >>
    ELSE IF keep[n - 1] # 0 THEN Append(KeptTo(keep, n - 1), n - 1)
         ELSE KeptTo(keep, n - 1)

\* resize all vectors: the kept hits with their len and score
Compact(h, cs) ==
    LET kept == KeptTo(cs.keep, Size(h))
    IN  [p \in 0..(Len(kept) - 1) |->
            [posQuery  |-> h[kept[p + 1]].posQuery,
             posTarget |-> h[kept[p + 1]].posTarget,
             set       |-> h[kept[p + 1]].set,
             len       |-> cs.len[kept[p + 1]],
             score     |-> cs.score[kept[p + 1]]]]

(***************************************************************************)
(* searchIndex: the chain DP                                               *)
(***************************************************************************)

\* deltaQuery = posQuery[k] - posQuery[p] - len[p]
DeltaQuery(posK, posP, lenP) == posK - posP - lenP

\* whether anchor k may follow anchor p in the query, deltaTarget being
\* within 0..maxSep
Linkable(deltaQuery, maxSep) == deltaQuery >= 0 /\ deltaQuery <= maxSep

\* cov[k] when k is linked to p
LinkCov(lenK, covP) == lenK - 1 + covP

\* the scan of the anchors p..k-1 for the best predecessor of k;
\* ds is [j, score, chain, origin, cov]
RECURSIVE ChainScan(_, _, _, _, _, _, _, _)
ChainScan(a, ds, k, p, prevScore, maxSep, sC, gC) ==
    IF p >= k THEN ds
    ELSE LET deltaTarget == a[k].posTarget - a[p].posTarget - a[p].len
             deltaQuery  == DeltaQuery(a[k].posQuery, a[p].posQuery, a[p].len)
             gap == IF deltaQuery > deltaTarget
                    THEN deltaQuery - deltaTarget ELSE deltaTarget - deltaQuery
             sep == IF deltaQuery > deltaTarget THEN deltaTarget ELSE deltaQuery
             tempScore == ds.score[p] + prevScore
             ds1 == IF deltaTarget > maxSep
                    THEN [ds EXCEPT !.j = p]
                    ELSE IF /\ deltaTarget >= 0
                            /\ Linkable(deltaQuery, maxSep)
                            /\ tempScore > ds.score[k]
                            /\ tempScore + GapCost(gC, gap) + SepCost(sC, sep)
                                   > ds.score[k]
                    THEN [ds EXCEPT
                            !.score[k]  = tempScore + GapCost(gC, gap)
                                                    + SepCost(sC, sep),
                            !.chain[k]  = p,
                            !.origin[k] = ds.origin[p],
                            !.cov[k]    = LinkCov(a[k].len, ds.cov[p])]
                    ELSE ds
         IN  ChainScan(a, ds1, k, p + 1, prevScore, maxSep, sC, gC)

\* while (k < s)
RECURSIVE ChainFrom(_, _, _, _, _, _)
ChainFrom(a, ds, k, maxSep, sC, gC) ==
    IF k >= Size(a) THEN ds
    ELSE IF a[k].set # a[ds.j].set
         THEN ChainFrom(a, [ds EXCEPT !.j = k], k + 1, maxSep, sC, gC)
         ELSE ChainFrom(a,
                        ChainScan(a, ds, k, ds.j, ds.score[k], maxSep, sC, gC),
                        k + 1, maxSep, sC, gC)

ChainDP(a, maxSep, sC, gC) ==
    ChainFrom(a,
              [j      |-> 0,
               score  |-> [j \in DOMAIN a |-> a[j].score],
               chain  |-> [j \in DOMAIN a |-> j],
               origin |-> [j \in DOMAIN a |-> j],
               cov    |-> [j \in DOMAIN a |-> a[j].len - 1]],
              1, maxSep, sC, gC)

\* correct for the size of the target search space:
\* score[j] -= log((pos[set[j] - 1] - cov[j])/step) + log(width - cov[j])
Correct(a, ds, pos, step, width) ==
    [j \in DOMAIN a |->
        ds.score[j] - (LogMilli(pos[a[j].set - 1] - ds.cov[j]) - LogMilli(step))
                    - LogMilli(width - ds.cov[j])]


(***************************************************************************)
(* searchIndex: the candidate results                                      *)
(***************************************************************************)

\* a selection that lets a later anchor of equal score replace the best
ReplacesBestOrEqual(bestScore, scoreJ) == bestScore <= scoreJ

\* whether j replaces the best anchor of its origin so far
ReplacesBest(bestScore, scoreJ) == bestScore < scoreJ

\* maxOrigin after the iterations j < n (malloc'ed: NA_INTEGER stands for
\* the entries not yet written)
RECURSIVE MaxOriginTo(_, _, _)
MaxOriginTo(score, origin, n) ==
    IF n = 0 THEN [j \in DOMAIN score |-> NA_INTEGER]
    ELSE LET mo == MaxOriginTo(score, origin, n - 1)
             j  == n - 1
         IN  IF origin[j] = j
             THEN [mo EXCEPT ![j] = j]
             ELSE IF ReplacesBest(score[mo[origin[j]]], score[j])
             THEN [mo EXCEPT ![origin[j]] = j, ![j] = NA_INTEGER]
             ELSE [mo EXCEPT ![j] = NA_INTEGER]

\* type 1, all hits: keep[maxOrigin[j]] = 1 wherever maxOrigin[j] is set
KeepAll(score, origin) ==
    LET mo == MaxOriginTo(score, origin, Size(score))
    IN  [j \in DOMAIN score |->
            IF \E i \in DOMAIN score : mo[i] # NA_INTEGER /\ mo[i] = j
            THEN 1 ELSE 0]

\* a sweep that lets a later anchor of equal score replace the target's best
BeatsTargetBestOrEqual(scoreK, scoreJ) == scoreJ >= scoreK

\* whether j replaces k, the best anchor of its target so far:
\* if (score[j] > score[k])
BeatsTargetBest(scoreK, scoreJ) == scoreJ > scoreK

\* type 2, one hit per target: the sweep over j < n; st is [p, k, keep]
RECURSIVE PerTargetTo(_, _, _)
PerTargetTo(a, score, n) ==
    IF n = 0 THEN [p |-> NA_INTEGER, k |-> 0, keep |-> [j \in DOMAIN a |-> 0]]
    ELSE LET st == PerTargetTo(a, score, n - 1)
             j  == n - 1
         IN  IF st.p # a[j].set
             THEN [p |-> a[j].set, k |-> j, keep |-> [st.keep EXCEPT ![j] = 1]]
             ELSE IF BeatsTargetBest(score[st.k], score[j])
             THEN [p |-> st.p, k |-> j,
                   keep |-> [st.keep EXCEPT ![st.k] = 0, ![j] = 1]]
             ELSE st

KeepPerTarget(a, score) == PerTargetTo(a, score, Size(a)).keep

\* type 3, top hit: res[0] after the iterations j < n
RECURSIVE TopTo(_, _)
TopTo(score, n) ==
    IF n <= 1 THEN 0
    ELSE LET r == TopTo(score, n - 1)
         IN  IF score[n - 1] > score[r] THEN n - 1 ELSE r

\* res: the indices of the candidate results
Candidates(a, score, origin, type) ==
    IF type = 1 THEN Z(KeptTo(KeepAll(score, origin), Size(a)))
    ELSE IF type = 2 THEN Z(KeptTo(KeepPerTarget(a, score), Size(a)))
    ELSE Z(<< TopTo(score, Size(a)) >>)

\* the minimum score of a candidate: minS, or when it is NA
\* log((tot - pos[set - 1])/step)
MinScoreOf(minS, tot, posT, step) ==
    IF minS.na THEN LogMilli(tot - posT) - LogMilli(step) ELSE minS.v

\* the candidates passing the minimum score, in order
RECURSIVE PassingTo(_, _, _, _, _, _, _, _)
PassingTo(res, a, score, pos, minS, tot, step, n) ==
    IF n = 0 THEN << >>
    ELSE LET rest == PassingTo(res, a, score, pos, minS, tot, step, n - 1)
             r    == res[n - 1]
         IN  IF score[r] >= MinScoreOf(minS, tot, pos[a[r].set - 1], step)
             THEN Append(rest, r) ELSE rest

Passing(res, a, score, pos, minS, tot, step) ==
    Z(PassingTo(res, a, score, pos, minS, tot, step, Size(res)))

(***************************************************************************)
(* searchIndex: the anchors of a result                                    *)
(***************************************************************************)

\* the four positions recorded for anchor p
Quad(a, p) ==
    << a[p].posQuery, a[p].posQuery + a[p].len - 1,
       a[p].posTarget, a[p].posTarget + a[p].len - 1 >>

\* the positions recorded from p back along the chain, p first
RECURSIVE TraceFrom(_, _, _)
TraceFrom(a, chain, p) ==
    IF p = chain[p] THEN Quad(a, p)
    ELSE Quad(a, p) \o TraceFrom(a, chain, chain[p])

\* anchor: the number of anchors k in anchor[0], then their positions
Traceback(a, chain, r) ==
    LET t == TraceFrom(a, chain, r)
    IN  Z(<< Len(t) \div 4 >> \o t)

\* an output that keeps the traceback order
SourceColumnKept(c, p) == p + 1

\* the column of anchor[] that becomes column p (0-based) of the matrix of
\* c columns: the anchor order is reversed
SourceColumn(c, p) == c - p

\* the 4 x c matrix of a result, column after column: rans
AnchorMatrix(anchor) ==
    LET c == anchor[0]
    IN  [x \in 0..(4 * c - 1) |->
            anchor[4 * SourceColumn(c, x \div 4) - 3 + (x % 4)]]

(***************************************************************************)
(* searchIndex: one query                                                  *)
(***************************************************************************)

\* the result of a query without results: l[i] = 0
NoResult == [l |-> 0, set |-> << >>, score |-> << >>, anchors |-> << >>]

\* the result of a query from its anchors, the DP's chains, the corrected
\* scores and the passing candidates res (anchors[j] is the anchor array of
\* result j; built when sO == 0)
ResultOf(a, chain, score, res) ==
    [l       |-> Size(res),
     set     |-> [j \in DOMAIN res |-> a[res[j]].set],
     score   |-> [j \in DOMAIN res |-> score[res[j]]],
     anchors |-> [j \in DOMAIN res |-> Traceback(a, chain, res[j])]]

\* the iteration of the loop over the queries for the query w whose hits
\* were counted without overflow; par is [K, step, L, freqs, sC, gC, type,
\* tot, minS], ix the index [num, loc, ind, pos]
SearchQuery(w, ch, ix, par) ==
    IF Width(w, par.K) = 0 \/ ch.s = 0 THEN NoResult
    ELSE LET h0  == Gather(w, ch.counts, ix,
                           Scores(par.freqs, par.K, par.L),
                           AddScores(par.freqs, par.K, par.step, par.L))
             h   == Reorder(h0, MergeSort(h0, ch.counts))
             a   == Compact(h, Collapse(h, par.K, par.step))
             ds  == ChainDP(a, MaxSepOf(par.L), par.sC, par.gC)
             sc  == Correct(a, ds, ix.pos, par.step, Width(w, par.K))
             res == Passing(Candidates(a, sc, ds.origin, par.type),
                            a, sc, ix.pos, par.minS, par.tot, par.step)
         IN  ResultOf(a, ds.chain, sc, res)


(***************************************************************************)
(* The inputs of the model                                                 *)
(***************************************************************************)

\* the longest target and the longest query, in k-mers
MaxTLen == 3
MaxQLen == 3

\* the alphabet of the model, and its size: length(logFreqs)
Alphabet == { 0, 1 }
ASize == Cardinality(Alphabet)

\* the k-mer codes the sequences of the model are made of, out of 0..L-1
Codes(L) == { c \in { 0, 1 } : c < L }

\* the sequences of n k-mers without a masked position
Targets(L) == UNION { Arrays(n, Codes(L)) : n \in 1..MaxTLen }

\* a target read backwards
Rev(t) == [j \in DOMAIN t |-> t[Size(t) - 1 - j]]

\* the corpora: one target, alone, twice, or followed by its reverse
Corpora(L) ==
    UNION { { Z(<< t >>), Z(<< t, t >>), Z(<< t, Rev(t) >>) } : t \in Targets(L) }

\* the queries: up to MaxQLen k-mers, each a code or masked
Queries(L) ==
    UNION { Arrays(n, Codes(L) \cup {NA_INTEGER}) : n \in 1..MaxQLen }

\* wordSize and stepSize, with a step within the k-mer
KStepsWithin == { << 1, 1 >>, << 2, 1 >>, << 2, 2 >> }

\* wordSize and stepSize, all of the model
KStepsAll == KStepsWithin \cup { << 1, 2 >> }

\* logFreqs, in thousandths: -log(1/2) twice; -log(3/4) and -log(1/4);
\* a letter of frequency 1
FreqsPositive == { Z(<< 693, 693 >>), Z(<< 288, 1386 >>) }
FreqsAll == FreqsPositive \cup { Z(<< 0, 693 >>) }

\* sepC and gapC
CostsNonNeg == { << 0, 0 >>, << 1, 2 >> }
CostsAll == CostsNonNeg \cup { << -1, -2 >> }

\* output: 1 = all hits, 2 = one hit per target, 3 = top hit
Types == { 1, 2, 3 }

\* total, the size of the target database
Totals == { 16 }

\* minScore: NA (to calculate), or given
MinScores == { [na |-> TRUE, v |-> 0], [na |-> FALSE, v |-> -5000] }

(***************************************************************************)
(* The state                                                               *)
(***************************************************************************)

VARIABLES
    \* one query through the pipeline of searchIndex
    par,        \* the arguments: K, step, L, freqs, sC, gC, type, tot, minS
    ix,         \* the inverted index: num, loc, ind, pos
    w,          \* the query's k-mers
    pc,         \* the place in the pipeline
    width,      \* the query's unmasked positions
    ch,         \* the count loop's counts, s and whether it overflowed
    gathered,   \* the hits as gathered
    hits,       \* the hits as sorted
    cs,         \* the collapse: k, p, keep, origin, len, score
    anch,       \* the anchors: the kept hits
    dp,         \* the chain DP: j, score, chain, origin, cov
    score,      \* the anchors' corrected scores
    cand,       \* res: the candidate results
    res,        \* res: the candidates passing the minimum score
    out,        \* the result of the query: l, set, score, anchors
    mats,       \* the matrices of the results' anchors, as returned
    \* the builder of the index
    seqs,       \* the corpus: the k-mers of each target
    bpar,       \* the arguments: K, step, L
    num,        \* count: the occurrences of each k-mer
    off0,       \* offset as reset before the update
    bst,        \* offset, location, index, positions, and the last count c
    counted,    \* the targets countIndex has gone through
    processed,  \* the targets updateIndex has gone through
    bpc,        \* the place in the build
    \* a call of searchIndex
    qs,         \* query: the k-mers of each query
    nth,        \* nThreads
    abort,      \* the shared abort
    nextq,      \* the next iteration of the loop to hand out
    th,         \* each thread's place, iteration i, width and count
    lres,       \* ptrs[i], vecs[i], l[i], matrices[i]: the results of query i
    interrupted, \* whether checkInterrupt has reported an interrupt
    overflowed, \* the queries (from 1) whose count has overflowed
    released,   \* the queries whose result buffers were freed on an error
    outcome     \* how the call ended

pipeVars ==
    << par, ix, w, pc, width, ch, gathered, hits, cs, anch, dp, score, cand,
       res, out, mats >>

bldVars == << seqs, bpar, num, off0, bst, counted, processed, bpc >>

drvVars ==
    << qs, nth, abort, nextq, th, lres, interrupted, overflowed, released,
       outcome >>

vars == << pipeVars, bldVars, drvVars >>

\* no build under way
BldIdle ==
    /\ seqs = << >>
    /\ bpar = << >>
    /\ num = << >>
    /\ off0 = << >>
    /\ bst = << >>
    /\ counted = 0
    /\ processed = 0
    /\ bpc = "idle"

\* no call of searchIndex under way
DrvIdle ==
    /\ qs = << >>
    /\ nth = 0
    /\ abort = 0
    /\ nextq = 0
    /\ th = << >>
    /\ lres = << >>
    /\ interrupted = FALSE
    /\ overflowed = {}
    /\ released = {}
    /\ outcome = "idle"

\* no query in the pipeline
PipeIdle ==
    /\ par = << >>
    /\ ix = << >>
    /\ w = << >>
    /\ pc = "idle"
    /\ width = 0
    /\ ch = << >>
    /\ gathered = << >>
    /\ hits = << >>
    /\ cs = << >>
    /\ anch = << >>
    /\ dp = << >>
    /\ score = << >>
    /\ cand = << >>
    /\ res = << >>
    /\ out = << >>
    /\ mats = << >>

(***************************************************************************)
(* One query through the pipeline                                          *)
(***************************************************************************)

\* a query and the index of a corpus built for K and step; the other
\* arguments are drawn where the pipeline first uses them
PipeInit(KSteps) ==
    \E ks \in KSteps :
        LET K == ks[1]
            step == ks[2]
            L == Pow(ASize, K)
        IN  \E corpus \in Corpora(L), q \in Queries(L) :
                /\ par = [K |-> K, step |-> step, L |-> L, freqs |-> << >>,
                          sC |-> 0, gC |-> 0, type |-> 0, tot |-> 0,
                          minS |-> [na |-> TRUE, v |-> 0]]
                /\ ix = BuildIndex(corpus, L, K, step)
                /\ w = q
                /\ pc = "start"
                /\ width = 0
                /\ ch = << >>
                /\ gathered = << >>
                /\ hits = << >>
                /\ cs = << >>
                /\ anch = << >>
                /\ dp = << >>
                /\ score = << >>
                /\ cand = << >>
                /\ res = << >>
                /\ out = << >>
                /\ mats = << >>

\* lines 142-189: the width, the count of hits, the exit without results
\* (an overflow sets abort, which ends the call: see the driver)
CountQuery ==
    /\ pc = "start"
    /\ width' = Width(w, par.K)
    /\ ch' = CountHits(w, ix.num)
    /\ IF ch'.over \/ width' = 0 \/ ch'.s = 0
       THEN /\ pc' = "done"
            /\ out' = NoResult
       ELSE /\ pc' = "counted"
            /\ out' = out
    /\ UNCHANGED << par, ix, w, gathered, hits, cs, anch, dp, score, cand, res, mats >>
    /\ UNCHANGED << bldVars, drvVars >>

\* lines 191-211: record the target occurrences of each query k-mer
GatherHits(Freqs) ==
    /\ pc = "counted"
    /\ \E f \in Freqs :
        /\ par' = [par EXCEPT !.freqs = f]
        /\ gathered' = Gather(w, ch.counts, ix, Scores(f, par.K, par.L),
                              AddScores(f, par.K, par.step, par.L))
    /\ pc' = "gathered"
    /\ UNCHANGED << ix, w, width, ch, hits, cs, anch, dp, score, cand, res, out, mats >>
    /\ UNCHANGED << bldVars, drvVars >>

\* lines 213-295: the merge sort and the reordering of the vectors
SortHits ==
    /\ pc = "gathered"
    /\ hits' = Reorder(gathered, MergeSort(gathered, ch.counts))
    /\ pc' = "sorted"
    /\ UNCHANGED << par, ix, w, width, ch, gathered, cs, anch, dp, score, cand, res,
                   out, mats >>
    /\ UNCHANGED << bldVars, drvVars >>

\* lines 297-368: collapse adjacent hits and resize the vectors
CollapseHits ==
    /\ pc = "sorted"
    /\ cs' = Collapse(hits, par.K, par.step)
    /\ anch' = Compact(hits, cs')
    /\ pc' = "collapsed"
    /\ UNCHANGED << par, ix, w, width, ch, gathered, hits, dp, score, cand, res,
                   out, mats >>
    /\ UNCHANGED << bldVars, drvVars >>

\* lines 370-420: the chain DP
Chain(Costs) ==
    /\ pc = "collapsed"
    /\ \E c \in Costs :
        /\ par' = [par EXCEPT !.sC = c[1], !.gC = c[2]]
        /\ dp' = ChainDP(anch, MaxSepOf(par.L), c[1], c[2])
    /\ pc' = "chained"
    /\ UNCHANGED << ix, w, width, ch, gathered, hits, cs, anch, score, cand, res,
                   out, mats >>
    /\ UNCHANGED << bldVars, drvVars >>

\* lines 422-427: correct for the size of the target search space
CorrectScores ==
    /\ pc = "chained"
    /\ score' = Correct(anch, dp, ix.pos, par.step, width)
    /\ pc' = "corrected"
    /\ UNCHANGED << par, ix, w, width, ch, gathered, hits, cs, anch, dp, cand, res,
                   out, mats >>
    /\ UNCHANGED << bldVars, drvVars >>

\* lines 429-493: the candidate results
Select ==
    /\ pc = "corrected"
    /\ \E t \in Types :
        /\ par' = [par EXCEPT !.type = t]
        /\ cand' = Candidates(anch, score, dp.origin, t)
    /\ pc' = "selected"
    /\ UNCHANGED << ix, w, width, ch, gathered, hits, cs, anch, dp, score, res,
                   out, mats >>
    /\ UNCHANGED << bldVars, drvVars >>

\* lines 495-556: the minimum score, the results and their anchors
Report ==
    /\ pc = "selected"
    /\ \E m \in MinScores, t \in Totals :
        /\ par' = [par EXCEPT !.minS = m, !.tot = t]
        /\ res' = Passing(cand, anch, score, ix.pos, m, t, par.step)
    /\ out' = ResultOf(anch, dp.chain, score, res')
    /\ pc' = "reported"
    /\ UNCHANGED << ix, w, width, ch, gathered, hits, cs, anch, dp, score, cand,
                   mats >>
    /\ UNCHANGED << bldVars, drvVars >>

\* lines 663-695, for this query: the matrices of its results' anchors
Emit ==
    /\ pc = "reported"
    /\ mats' = [j \in DOMAIN out.anchors |-> AnchorMatrix(out.anchors[j])]
    /\ pc' = "done"
    /\ UNCHANGED << par, ix, w, width, ch, gathered, hits, cs, anch, dp, score,
                   cand, res, out >>
    /\ UNCHANGED << bldVars, drvVars >>

\* the pipeline up to the chain DP, for every K and step of the model
ChainInit == PipeInit(KStepsAll) /\ BldIdle /\ DrvIdle

ChainNext ==
    \/ CountQuery
    \/ GatherHits(FreqsAll)
    \/ SortHits
    \/ CollapseHits
    \/ Chain(CostsAll)

SpecChain == ChainInit /\ [][ChainNext]_vars

\* the whole pipeline, for a step within the k-mer
SelectInit == PipeInit(KStepsWithin) /\ BldIdle /\ DrvIdle

SelectNext ==
    \/ CountQuery
    \/ GatherHits(FreqsAll)
    \/ SortHits
    \/ CollapseHits
    \/ Chain(CostsAll)
    \/ CorrectScores
    \/ Select
    \/ Report
    \/ Emit

SpecSelect == SelectInit /\ [][SelectNext]_vars


(***************************************************************************)
(* The sort, the collapse and the chains                                   *)
(***************************************************************************)

\* whether hit x may stand before hit y in the sorted hits
InOrder(x, y) ==
    x.set < y.set \/ (x.set = y.set /\ x.posTarget <= y.posTarget)

\* the place of hit x among the gathered hits (a hit is gathered once)
PlaceGathered(x) == CHOOSE i \in DOMAIN gathered : gathered[i] = x

\* whether the bucket of every query position is sorted as gathered
BucketsSorted ==
    \A i, j \in DOMAIN gathered :
        (i < j /\ gathered[i].posQuery = gathered[j].posQuery)
            => InOrder(gathered[i], gathered[j])

\* C4: after the merge of the buckets and the gather through the
\* permutation, the hits are a permutation of the gathered hits, in the
\* order of (set, posTarget), and hits equal on both keys keep the order in
\* which they were gathered.
C4_SortedStable ==
    pc = "sorted" =>
        /\ Size(hits) = Size(gathered)
        /\ \A i \in DOMAIN gathered :
               Cardinality({ j \in DOMAIN hits : hits[j] = gathered[i] }) = 1
        /\ \A j, k \in DOMAIN hits : j < k => InOrder(hits[j], hits[k])
        /\ \A j, k \in DOMAIN hits :
               (/\ j < k
                /\ hits[j].set = hits[k].set
                /\ hits[j].posTarget = hits[k].posTarget)
                   => PlaceGathered(hits[j]) < PlaceGathered(hits[k])

\* an odd number of buckets, one of them empty, sorted buckets, a sort that
\* moves hits, and two hits equal on both keys
C4_Witness ==
    /\ pc = "sorted"
    /\ Size(w) = 3
    /\ \E j \in DOMAIN w : w[j] = NA_INTEGER
    /\ BucketsSorted
    /\ hits # gathered
    /\ \E j, k \in DOMAIN hits :
           /\ j < k
           /\ hits[j].set = hits[k].set
           /\ hits[j].posTarget = hits[k].posTarget
    /\ \E j, k \in DOMAIN hits : hits[j].set # hits[k].set

\* whether hit c of h is one step after hit j on its diagonal
Continues(h, j, c, step) ==
    /\ h[j].set = h[c].set
    /\ h[c].posTarget - h[j].posTarget = step
    /\ h[c].posQuery - h[j].posQuery = step

HasPredecessor(h, c, step) == \E j \in DOMAIN h : Continues(h, j, c, step)

\* the hit that the run of hit c starts from
RECURSIVE RunOrigin(_, _, _)
RunOrigin(h, c, step) ==
    IF HasPredecessor(h, c, step)
    THEN RunOrigin(h, CHOOSE j \in DOMAIN h : Continues(h, j, c, step), step)
    ELSE c

\* the sum of the addScore of the hits in S
RECURSIVE SumAddScore(_, _)
SumAddScore(h, S) ==
    IF S = {} THEN 0
    ELSE LET c == CHOOSE c \in S : TRUE
         IN  h[c].addScore + SumAddScore(h, S \ {c})

\* the hits whose run starts from o, o apart
Followers(h, o, step) ==
    { c \in DOMAIN h : c # o /\ RunOrigin(h, c, step) = o }

\* C5: after the collapse no kept hit is one step after another kept hit
\* on its diagonal; every hit one step after a hit on its diagonal is
\* dropped, and the hit its run starts from has got its step and addScore.
C5_Collapsed ==
    pc = "collapsed" =>
        /\ \A j, c \in DOMAIN anch : ~Continues(anch, j, c, par.step)
        /\ \A c \in DOMAIN hits :
               HasPredecessor(hits, c, par.step) => cs.keep[c] = 0
        /\ \A o \in DOMAIN hits :
               cs.keep[o] = 1 =>
                   LET F == Followers(hits, o, par.step)
                   IN  /\ cs.len[o] = par.K + par.step * Cardinality(F)
                       /\ cs.score[o] = hits[o].score + SumAddScore(hits, F)
        /\ Size(anch) = Cardinality({ o \in DOMAIN hits : cs.keep[o] = 1 })
        /\ \A p \in DOMAIN anch :
               \E o \in DOMAIN hits :
                   /\ cs.keep[o] = 1
                   /\ anch[p].posQuery = hits[o].posQuery
                   /\ anch[p].posTarget = hits[o].posTarget
                   /\ anch[p].set = hits[o].set
                   /\ anch[p].len = cs.len[o]
                   /\ anch[p].score = cs.score[o]

\* a run of three hits collapsed into one, with a step of 2, among others
C5_Witness ==
    /\ pc = "collapsed"
    /\ par.step = 2
    /\ \E o \in DOMAIN hits :
           /\ cs.keep[o] = 1
           /\ Cardinality(Followers(hits, o, par.step)) = 1
    /\ Size(anch) > 1

\* whether the score grows along every link of the chains
Monotone ==
    \A k \in DOMAIN anch :
        dp.chain[k] # k => dp.score[k] > dp.score[dp.chain[k]]

\* C6, as claimed: after the chain DP the score of a linked anchor is
\* greater than the score of the anchor it is linked to.
C6_AsClaimed == pc = "chained" => Monotone

\* C6, amended: so it is when sepC and gapC are not negative and every
\* anchor's own score is positive.
C6_MonotoneChains ==
    (/\ pc = "chained"
     /\ par.sC >= 0
     /\ par.gC >= 0
     /\ \A k \in DOMAIN anch : anch[k].score > 0) => Monotone

\* a link with costs that are not zero
C6_Witness ==
    /\ pc = "chained"
    /\ par.sC > 0
    /\ par.gC > 0
    /\ \A k \in DOMAIN anch : anch[k].score > 0
    /\ \E k \in DOMAIN anch :
           /\ dp.chain[k] # k
           /\ dp.score[k] # dp.score[dp.chain[k]] + anch[k].score

\* whether log(width - cov[j]) is defined for every anchor
Covered == \A j \in DOMAIN anch : dp.cov[j] <= width /\ width - dp.cov[j] > 0

\* C7, as claimed: after the chain DP cov[j] is at most the width and
\* width - cov[j] is positive, for every K and step.
C7_AsClaimed == pc = "chained" => Covered

\* C7, amended: so it is when the step is at most K.
C7_CoverageBound == (pc = "chained" /\ par.step <= par.K) => Covered

\* a chain of two anchors around a masked position of the query, with the
\* coverage of both
C7_Witness ==
    /\ pc = "chained"
    /\ par.step <= par.K
    /\ \E j \in DOMAIN w : w[j] = NA_INTEGER
    /\ \E k \in DOMAIN anch :
           /\ dp.chain[k] # k
           /\ dp.cov[dp.chain[k]] > 0
           /\ dp.cov[k] > dp.cov[dp.chain[k]]


(***************************************************************************)
(* The candidates and the anchors of the results                           *)
(***************************************************************************)

\* the anchors of origin o
OfOrigin(o) == { j \in DOMAIN anch : dp.origin[j] = o }

\* the anchors of origin o with the highest corrected score
BestOfOrigin(o) ==
    { j \in OfOrigin(o) : \A i \in OfOrigin(o) : score[i] <= score[j] }

\* the candidates of origin o
CandidatesOf(o) == { cand[x] : x \in { y \in DOMAIN cand : dp.origin[cand[y]] = o } }

\* whether the candidates are one per origin
OnePerOrigin ==
    /\ Size(cand) = Cardinality({ dp.origin[j] : j \in DOMAIN anch })
    /\ \A j \in DOMAIN anch : Cardinality(CandidatesOf(dp.origin[j])) = 1

\* C9, as claimed: in output mode 1 the candidates are one per origin, the
\* anchor of the highest corrected score of that origin, and the one with
\* the later index when several share the highest score.
C9_AsClaimed ==
    (pc = "selected" /\ par.type = 1) =>
        /\ OnePerOrigin
        /\ \A j \in DOMAIN anch :
               LET o == dp.origin[j]
               IN  \A c \in CandidatesOf(o) :
                       /\ c \in BestOfOrigin(o)
                       /\ \A i \in BestOfOrigin(o) : i <= c

\* C9, amended: in output mode 1 the candidates are one per origin, the
\* anchor of the highest corrected score of that origin, and the one with
\* the earlier index when several share the highest score.
C9_BestPerOrigin ==
    (pc = "selected" /\ par.type = 1) =>
        /\ OnePerOrigin
        /\ \A j \in DOMAIN anch :
               LET o == dp.origin[j]
               IN  \A c \in CandidatesOf(o) :
                       /\ c \in BestOfOrigin(o)
                       /\ \A i \in BestOfOrigin(o) : c <= i

\* mode 1 with two origins, one with two anchors of the highest score, and
\* one whose candidate is not the origin itself
C9_Witness ==
    /\ pc = "selected"
    /\ par.type = 1
    /\ \E j \in DOMAIN anch : Cardinality(BestOfOrigin(dp.origin[j])) > 1
    /\ \E x \in DOMAIN cand : dp.origin[cand[x]] # cand[x]
    /\ Size(cand) > 1

\* the anchors of the chain of k, from its origin to k, once chain[] leads
\* downwards
RECURSIVE PathTo(_, _)
PathTo(chain, k) ==
    IF chain[k] = k THEN << k >> ELSE Append(PathTo(chain, chain[k]), k)

\* column p (from 1) of the matrix m
Column(m, p) == << m[4 * p - 4], m[4 * p - 3], m[4 * p - 2], m[4 * p - 1] >>

\* C10: every result's matrix has one column for each anchor of the chain
\* from the origin to the selected anchor, in that order, each column being
\* (qPos, qPos + len - 1, tPos, tPos + len - 1) and starting after the end
\* of the column before it in the query and in the target; chain[] leads
\* to an anchor before, or ends, so the traceback terminates.
C10_AnchorsInOrder ==
    (pc = "done" /\ Size(anch) > 0) =>
        /\ \A k \in DOMAIN dp.chain : dp.chain[k] <= k
        /\ Size(mats) = Size(res)
        /\ \A j \in DOMAIN mats :
               LET path == PathTo(dp.chain, res[j])
                   m    == mats[j]
               IN  /\ Size(m) = 4 * Len(path)
                   /\ \A p \in 1..Len(path) :
                          LET a == anch[path[p]]
                          IN  Column(m, p) =
                                  << a.posQuery, a.posQuery + a.len - 1,
                                     a.posTarget, a.posTarget + a.len - 1 >>
                   /\ \A p \in 1..(Len(path) - 1) :
                          /\ Column(m, p + 1)[1] > Column(m, p)[2]
                          /\ Column(m, p + 1)[3] > Column(m, p)[4]

\* two results, one of them a chain of two anchors
C10_Witness ==
    /\ pc = "done"
    /\ Size(mats) > 1
    /\ \E j \in DOMAIN mats : Size(mats[j]) = 8
    /\ \E j \in DOMAIN mats : Size(mats[j]) = 4

(***************************************************************************)
(* The build of the index, batch after batch                               *)
(***************************************************************************)

\* the most targets of a corpus under construction
MaxSeqs == 2

\* what the call back to R returns: 0, or not 0 on a user interrupt
checkInterrupt == { 0, -1 }

\* the targets of the builder: up to MaxTLen k-mers, each a code or masked
MaskedTargets(L) ==
    UNION { Arrays(n, Codes(L) \cup {NA_INTEGER}) : n \in 1..MaxTLen }

\* the corpora of the builder: a target and its reverse, in any order
BuildCorpora(L) ==
    UNION { UNION { Arrays(n, { t, Rev(t) }) : n \in 1..MaxSeqs } :
                t \in MaskedTargets(L) }

\* the b sequences of query from the one at from on
Slice(query, from, b) == [i \in 0..(b - 1) |-> query[from + i]]

\* a corpus and empty counts: the state before the first countIndex
BuildInit ==
    /\ \E ks \in KStepsAll :
           /\ bpar = [K |-> ks[1], step |-> ks[2], L |-> Pow(ASize, ks[1])]
           /\ seqs \in BuildCorpora(Pow(ASize, ks[1]))
           /\ num = [c \in 0..(Pow(ASize, ks[1]) - 1) |-> 0]
    /\ off0 = << >>
    /\ bst = << >>
    /\ counted = 0
    /\ processed = 0
    /\ bpc = "count"
    /\ PipeIdle
    /\ DrvIdle

\* countIndex over the next b targets, no interrupt reported
CountBatch ==
    /\ bpc = "count"
    /\ \E b \in 1..(Size(seqs) - counted) :
        /\ num' = countIndex(num, Slice(seqs, counted, b), bpar.step)
        /\ counted' = counted + b
        /\ bpc' = IF counted + b = Size(seqs) THEN "offsets" ELSE "count"
    /\ UNCHANGED << seqs, bpar, off0, bst, processed >>
    /\ UNCHANGED << pipeVars, drvVars >>

\* countIndex over the next b targets, ended by the error of a user
\* interrupt reported after m of them
CountInterrupted ==
    /\ bpc = "count"
    /\ \E b \in 1..(Size(seqs) - counted), m \in 1..MaxSeqs,
          a \in checkInterrupt :
        /\ m <= b
        /\ a # 0
        /\ num' = CountIndexTo(num, Slice(seqs, counted, b), bpar.step, m)
    /\ bpc' = "stopped"
    /\ UNCHANGED << seqs, bpar, off0, bst, counted, processed >>
    /\ UNCHANGED << pipeVars, drvVars >>

\* approxFreqs: offset becomes the prefix sums of count; location, index
\* and positions are the caller's zeroed vectors
SetOffsets ==
    /\ bpc = "offsets"
    /\ off0' = Offsets(num)
    /\ bst' = [off |-> Offsets(num),
               loc |-> [p \in 0..(SumTo(num, Size(num)) - 1) |-> 0],
               ind |-> [p \in 0..(SumTo(num, Size(num)) - 1) |-> 0],
               pos |-> [t \in 0..(Size(seqs) - 1) |-> 0],
               c   |-> 0]
    /\ bpc' = "update"
    /\ UNCHANGED << seqs, bpar, num, counted, processed >>
    /\ UNCHANGED << pipeVars, drvVars >>

\* updateIndex over the next b targets with the processed count, no
\* interrupt reported
UpdateBatch ==
    /\ bpc = "update"
    /\ \E b \in 1..(Size(seqs) - processed) :
        /\ bst' = updateIndex([bst EXCEPT !.c = processed],
                              Slice(seqs, processed, b), bpar.K, bpar.step)
        /\ processed' = processed + b
        /\ bpc' = IF processed + b = Size(seqs) THEN "built" ELSE "update"
    /\ UNCHANGED << seqs, bpar, num, off0, counted >>
    /\ UNCHANGED << pipeVars, drvVars >>

\* updateIndex over the next b targets, ended by the error of a user
\* interrupt reported after m of them
UpdateInterrupted ==
    /\ bpc = "update"
    /\ \E b \in 1..(Size(seqs) - processed), m \in 1..MaxSeqs,
          a \in checkInterrupt :
        /\ m <= b
        /\ a # 0
        /\ bst' = UpdateIndexTo([bst EXCEPT !.c = processed],
                                Slice(seqs, processed, b), bpar.K, bpar.step,
                                processed, m)
    /\ bpc' = "stopped"
    /\ UNCHANGED << seqs, bpar, num, off0, counted, processed >>
    /\ UNCHANGED << pipeVars, drvVars >>

BuildNext ==
    \/ CountBatch
    \/ CountInterrupted
    \/ SetOffsets
    \/ UpdateBatch
    \/ UpdateInterrupted

SpecBuild == BuildInit /\ [][BuildNext]_vars

\* the stride-aligned unmasked positions of the corpus: target t, place j
Aligned ==
    { tj \in UNION { { << t, j >> : j \in DOMAIN seqs[t] } : t \in DOMAIN seqs } :
        /\ tj[2] % bpar.step = 0
        /\ seqs[tj[1]][tj[2]] # NA_INTEGER }

\* the places of the index holding (target id, position + 1) of tj
PlacesOf(tj) ==
    { p \in DOMAIN bst.ind :
        bst.ind[p] = tj[1] + 1 /\ bst.loc[p] = tj[2] + 1 }

\* C8: after countIndex, the reset of offset and updateIndex over the same
\* corpus with the same step, in batches with the processed count carried,
\* every stride-aligned unmasked position is written once, as (target id,
\* position + 1), inside the bucket of its code; offset[c] ends at
\* offset0[c] + count[c]; and each target id is in index as many times as
\* the target has stride-aligned unmasked positions.
C8_BuilderRoundTrip ==
    bpc = "built" =>
        /\ \A c \in DOMAIN num : bst.off[c] = off0[c] + num[c]
        /\ Size(bst.ind) = Cardinality(Aligned)
        /\ \A tj \in Aligned :
               LET c == seqs[tj[1]][tj[2]]
               IN  /\ Cardinality(PlacesOf(tj)) = 1
                   /\ \A p \in PlacesOf(tj) :
                          off0[c] <= p /\ p < off0[c] + num[c]
        /\ \A t \in DOMAIN seqs :
               Cardinality({ p \in DOMAIN bst.ind : bst.ind[p] = t + 1 }) =
                   Cardinality({ tj \in Aligned : tj[1] = t })

\* two targets with a step of 2, a masked position on the stride, an
\* unmasked position off the stride, and writes for both targets
C8_Witness ==
    /\ bpc = "built"
    /\ bpar.step = 2
    /\ Size(seqs) = 2
    /\ bst.c = 2
    /\ \E t \in DOMAIN seqs : \E j \in DOMAIN seqs[t] :
           seqs[t][j] = NA_INTEGER /\ j % 2 = 0
    /\ \E t \in DOMAIN seqs : \E j \in DOMAIN seqs[t] :
           seqs[t][j] # NA_INTEGER /\ j % 2 = 1
    /\ Size(bst.ind) > 1
    /\ bst.ind[0] # bst.ind[Size(bst.ind) - 1]

(***************************************************************************)
(* searchIndex: the loop over the queries, its threads and the end         *)
(***************************************************************************)

\* the most queries of a call and the most threads
MaxQueries == 3
MaxThreads == 2

\* the arguments of the calls of the model
DrvPar ==
    [K |-> 1, step |-> 1, L |-> ASize, freqs |-> Z(<< 693, 693 >>),
     sC |-> 0, gC |-> 0, type |-> 1, tot |-> 16,
     minS |-> [na |-> FALSE, v |-> -5000]]

\* the index of the calls of the model: k-mer 0 as in the target (0, 0),
\* and k-mer 1 with INT_MAX occurrences, none of which is ever gathered
DrvIndex ==
    LET b == BuildIndex(Z(<< Z(<< 0, 0 >>) >>), DrvPar.L, DrvPar.K, DrvPar.step)
    IN  [b EXCEPT !.num[1] = INT_MAX]

\* the queries of the model: with results, masked, and with k-mer 1 twice,
\* whose count overflows
DrvQueries ==
    { Z(<< 0 >>), Z(<< 0, NA_INTEGER, 0 >>), Z(<< NA_INTEGER >>),
      Z(<< 1, 1 >>), Z(<< 0, 1, 1 >>) }

\* ptrs[i], l[i] before the iteration i of the loop: the query
Unset == [l |-> NA_INTEGER, set |-> << >>, score |-> << >>, anchors |-> << >>]

\* what a thread that went on with a negative s leaves, if it leaves
Garbage == [l |-> 1, set |-> Z(<< 0 >>), score |-> Z(<< 0 >>),
            anchors |-> Z(<< Z(<< 0 >>) >>)]

Idle == [pc |-> "idle", i |-> 0, width |-> 0, ch |-> << >>]

SearchInit ==
    /\ \E n \in 1..MaxQueries : qs \in Arrays(n, DrvQueries)
    /\ nth \in 1..MaxThreads
    /\ abort = 0
    /\ nextq = 0
    /\ th = [t \in 0..(nth - 1) |-> Idle]
    /\ lres = [i \in DOMAIN qs |-> Unset]
    /\ interrupted = FALSE
    /\ overflowed = {}
    /\ released = {}
    /\ outcome = [kind |-> "running"]
    /\ PipeIdle
    /\ BldIdle

Running == outcome.kind = "running"

\* schedule(dynamic): thread t is handed the next iteration
Take(t) ==
    /\ Running
    /\ th[t].pc = "idle"
    /\ nextq < Size(qs)
    /\ th' = [th EXCEPT ![t] = [@ EXCEPT !.pc = "top", !.i = nextq]]
    /\ nextq' = nextq + 1
    /\ UNCHANGED << qs, nth, abort, lres, interrupted, overflowed, released,
                   outcome >>
    /\ UNCHANGED << pipeVars, bldVars >>

\* if (abort == 0) ... else: an iteration after an abort leaves no result
Top(t) ==
    /\ Running
    /\ th[t].pc = "top"
    /\ IF abort = 0
       THEN /\ th' = [th EXCEPT ![t].pc = "count"]
            /\ lres' = lres
       ELSE /\ th' = [th EXCEPT ![t].pc = "idle"]
            /\ lres' = [lres EXCEPT ![th[t].i] = NoResult]
    /\ UNCHANGED << qs, nth, abort, nextq, interrupted, overflowed, released,
                   outcome >>
    /\ UNCHANGED << pipeVars, bldVars >>

\* the width and the count of the hits; an overflow writes abort
Count(t) ==
    /\ Running
    /\ th[t].pc = "count"
    /\ LET c == CountHits(qs[th[t].i], DrvIndex.num)
       IN  /\ th' = [th EXCEPT ![t] = [@ EXCEPT
                        !.pc = "check",
                        !.width = Width(qs[th[t].i], DrvPar.K),
                        !.ch = c]]
           /\ abort' = IF c.over THEN th[t].i + 1 ELSE abort
           /\ overflowed' = IF c.over THEN overflowed \cup { th[t].i + 1 }
                            ELSE overflowed
    /\ UNCHANGED << qs, nth, nextq, lres, interrupted, released, outcome >>
    /\ UNCHANGED << pipeVars, bldVars >>

\* if (abort != 0 || width == 0 || s == 0): no result, and continue
Skip(t) ==
    /\ Running
    /\ th[t].pc = "check"
    /\ abort # 0 \/ th[t].width = 0 \/ th[t].ch.s = 0
    /\ th' = [th EXCEPT ![t].pc = "idle"]
    /\ lres' = [lres EXCEPT ![th[t].i] = NoResult]
    /\ UNCHANGED << qs, nth, abort, nextq, interrupted, overflowed, released,
                   outcome >>
    /\ UNCHANGED << pipeVars, bldVars >>

\* the test read abort as 0 after the overflow wrote it: malloc of a
\* negative s and writes through what it returned. The call crashes, or
\* the thread leaves whatever it leaves
GoOnOverflowed(t) ==
    /\ Running
    /\ th[t].pc = "check"
    /\ ~(abort # 0 \/ th[t].width = 0 \/ th[t].ch.s = 0)
    /\ th[t].ch.s < 0
    /\ \/ /\ outcome' = [kind |-> "crash"]
          /\ UNCHANGED << th, lres >>
       \/ /\ th' = [th EXCEPT ![t].pc = IF t = 0 THEN "tick" ELSE "idle"]
          /\ lres' = [lres EXCEPT ![th[t].i] = Garbage]
          /\ outcome' = outcome
    /\ UNCHANGED << qs, nth, abort, nextq, interrupted, overflowed, released >>
    /\ UNCHANGED << pipeVars, bldVars >>

\* the query through the pipeline
Work(t) ==
    /\ Running
    /\ th[t].pc = "check"
    /\ ~(abort # 0 \/ th[t].width = 0 \/ th[t].ch.s = 0)
    /\ th[t].ch.s > 0
    /\ lres' = [lres EXCEPT ![th[t].i] =
                    SearchQuery(qs[th[t].i], th[t].ch, DrvIndex, DrvPar)]
    /\ th' = [th EXCEPT ![t].pc = IF t = 0 THEN "tick" ELSE "idle"]
    /\ UNCHANGED << qs, nth, abort, nextq, interrupted, overflowed, released,
                   outcome >>
    /\ UNCHANGED << pipeVars, bldVars >>

\* the master thread, less than a second after the last check
TickEarly ==
    /\ Running
    /\ th[0].pc = "tick"
    /\ th' = [th EXCEPT ![0].pc = "idle"]
    /\ UNCHANGED << qs, nth, abort, nextq, lres, interrupted, overflowed,
                   released, outcome >>
    /\ UNCHANGED << pipeVars, bldVars >>

\* the master thread, a second or more after: abort = checkInterrupt()
TickCheck ==
    /\ Running
    /\ th[0].pc = "tick"
    /\ \E a \in checkInterrupt :
        /\ abort' = a
        /\ interrupted' = (interrupted \/ a # 0)
    /\ th' = [th EXCEPT ![0].pc = "idle"]
    /\ UNCHANGED << qs, nth, nextq, lres, overflowed, released, outcome >>
    /\ UNCHANGED << pipeVars, bldVars >>

AllDone == nextq = Size(qs) /\ \A t \in DOMAIN th : th[t].pc = "idle"

\* if (abort != 0): release the results of every query, and the error
Release ==
    /\ Running
    /\ AllDone
    /\ abort # 0
    /\ released' = DOMAIN qs
    /\ outcome' = IF abort < 0 THEN [kind |-> "interrupt"]
                  ELSE [kind |-> "overflow", index |-> abort]
    /\ UNCHANGED << qs, nth, abort, nextq, th, lres, interrupted, overflowed >>
    /\ UNCHANGED << pipeVars, bldVars >>

\* the results of the queries before n, query after query
RECURSIVE FlatTo(_, _)
FlatTo(lr, n) ==
    IF n = 0
    THEN [kind |-> "result", queryId |-> << >>, targetId |-> << >>,
          score |-> << >>, anchors |-> << >>]
    ELSE LET f == FlatTo(lr, n - 1)
             r == lr[n - 1]
         IN  [kind     |-> "result",
              queryId  |-> f.queryId \o [j \in 1..r.l |-> n],
              targetId |-> f.targetId \o [j \in 1..r.l |-> r.set[j - 1]],
              score    |-> f.score \o [j \in 1..r.l |-> r.score[j - 1]],
              anchors  |-> f.anchors \o
                           [j \in 1..r.l |-> AnchorMatrix(r.anchors[j - 1])]]

\* the result set
Assemble ==
    /\ Running
    /\ AllDone
    /\ abort = 0
    /\ outcome' = FlatTo(lres, Size(qs))
    /\ UNCHANGED << qs, nth, abort, nextq, th, lres, interrupted, overflowed,
                   released >>
    /\ UNCHANGED << pipeVars, bldVars >>

SearchNext ==
    \/ \E t \in DOMAIN th : Take(t)
    \/ \E t \in DOMAIN th : Top(t)
    \/ \E t \in DOMAIN th : Count(t)
    \/ \E t \in DOMAIN th : Skip(t)
    \/ \E t \in DOMAIN th : GoOnOverflowed(t)
    \/ \E t \in DOMAIN th : Work(t)
    \/ TickEarly
    \/ TickCheck
    \/ Release
    \/ Assemble

SpecSearch == SearchInit /\ [][SearchNext]_vars

\* the queries whose count overflows, from 1
Overflowing ==
    { i + 1 : i \in { j \in DOMAIN qs : CountHits(qs[j], DrvIndex.num).over } }

\* how the call ends when the queries are gone through one after the
\* other without an interrupt
Sequential ==
    IF Overflowing # {}
    THEN [kind  |-> "overflow",
          index |-> CHOOSE i \in Overflowing : \A k \in Overflowing : i <= k]
    ELSE FlatTo([i \in DOMAIN qs |->
                    LET c == CountHits(qs[i], DrvIndex.num)
                    IN  SearchQuery(qs[i], c, DrvIndex, DrvPar)],
                Size(qs))

Ended == outcome.kind \notin { "idle", "running" }

\* C1: when the count of a query overflows, the call ends with the
\* overflow error naming an overflowing query, from 1, and with no result
\* set, whatever the threads and the master's interrupt checks (here: with
\* no interrupt reported).
C1_OverflowIsFatal ==
    (Ended /\ overflowed # {} /\ ~interrupted) =>
        (outcome.kind = "overflow" /\ outcome.index \in overflowed)

\* C2: once the interrupt check has reported an interrupt, the call ends
\* with the error of the interrupt, not the overflow error and not a
\* result set, every query's result buffers released.
C2_InterruptIsReported ==
    (Ended /\ interrupted) =>
        (outcome.kind = "interrupt" /\ released = DOMAIN qs)

\* C3: with no interrupt, the call ends the same way for every number of
\* threads and every schedule: as when the queries are gone through one
\* after the other.
C3_SameOutcome ==
    (Ended /\ ~interrupted) => outcome = Sequential

(***************************************************************************)
(* The candidates of output mode 2                                         *)
(***************************************************************************)

\* the anchors on target s
OnTarget(s) == { j \in DOMAIN anch : anch[j].set = s }

\* the anchors on target s with the highest corrected score
BestOnTarget(s) ==
    { j \in OnTarget(s) : \A i \in OnTarget(s) : score[i] <= score[j] }

\* the candidates on target s
CandidatesOn(s) ==
    { cand[x] : x \in { y \in DOMAIN cand : anch[cand[y]].set = s } }

\* C11: in output mode 2 the candidates are one for every target with an
\* anchor: the anchor of the lowest index among those of the highest
\* corrected score on that target; so no two candidates share a target, and
\* two identical targets matched by the query have a candidate each.
C11_BestPerTarget ==
    (pc = "selected" /\ par.type = 2) =>
        /\ Size(cand) = Cardinality({ anch[j].set : j \in DOMAIN anch })
        /\ \A x, y \in DOMAIN cand :
               x # y => anch[cand[x]].set # anch[cand[y]].set
        /\ \A j \in DOMAIN anch :
               LET s == anch[j].set
               IN  /\ Cardinality(CandidatesOn(s)) = 1
                   /\ \A c \in CandidatesOn(s) :
                          /\ c \in BestOnTarget(s)
                          /\ \A i \in BestOnTarget(s) : c <= i

\* mode 2 with two identical targets, a target on which two anchors share
\* the highest score, and a candidate that is not the first anchor of its
\* target
C11_Witness ==
    /\ pc = "selected"
    /\ par.type = 2
    /\ Size(ix.pos) = 2
    /\ ix.pos[0] = ix.pos[1]
    /\ \A j \in OnTarget(1) : \E i \in OnTarget(2) :
           /\ anch[i].posQuery = anch[j].posQuery
           /\ anch[i].posTarget = anch[j].posTarget
           /\ anch[i].len = anch[j].len
    /\ Size(cand) = 2
    /\ \E j \in DOMAIN anch : Cardinality(BestOnTarget(anch[j].set)) > 1
    /\ \E x \in DOMAIN cand : \E i \in OnTarget(anch[cand[x]].set) : i < cand[x]

(***************************************************************************)
(* The window of the chain DP                                              *)
(***************************************************************************)

\* the first anchor on the target of anchor k
FirstOnTarget(a, k) ==
    CHOOSE j \in DOMAIN a :
        a[j].set = a[k].set /\ \A i \in DOMAIN a : a[i].set = a[k].set => j <= i

\* whether anchor k may be linked to the earlier anchor p
LinkConditions(a, p, k, maxSep) ==
    LET deltaTarget == a[k].posTarget - a[p].posTarget - a[p].len
        deltaQuery  == a[k].posQuery - a[p].posQuery - a[p].len
    IN  /\ a[p].set = a[k].set
        /\ 0 <= deltaTarget /\ deltaTarget <= maxSep
        /\ 0 <= deltaQuery /\ deltaQuery <= maxSep

\* the DP of anchor k over the anchors p..k-1, none left out;
\* ds is [score, chain, origin, cov]
RECURSIVE FullScan(_, _, _, _, _, _, _, _)
FullScan(a, ds, k, p, prevScore, maxSep, sC, gC) ==
    IF p >= k THEN ds
    ELSE LET deltaTarget == a[k].posTarget - a[p].posTarget - a[p].len
             deltaQuery  == a[k].posQuery - a[p].posQuery - a[p].len
             gap == IF deltaQuery > deltaTarget
                    THEN deltaQuery - deltaTarget ELSE deltaTarget - deltaQuery
             sep == IF deltaQuery > deltaTarget THEN deltaTarget ELSE deltaQuery
             cand0 == ds.score[p] + prevScore
             ds1 == IF /\ LinkConditions(a, p, k, maxSep)
                       /\ cand0 > ds.score[k]
                       /\ cand0 + gC * SqrtMilli[gap] + sC * SqrtMilli[sep]
                              > ds.score[k]
                    THEN [ds EXCEPT
                            !.score[k]  = cand0 + gC * SqrtMilli[gap]
                                                + sC * SqrtMilli[sep],
                            !.chain[k]  = p,
                            !.origin[k] = ds.origin[p],
                            !.cov[k]    = a[k].len - 1 + ds.cov[p]]
                    ELSE ds
         IN  FullScan(a, ds1, k, p + 1, prevScore, maxSep, sC, gC)

\* the DP of the anchors before n, each over all the earlier anchors of its
\* target
RECURSIVE FullDP(_, _, _, _, _)
FullDP(a, n, maxSep, sC, gC) ==
    IF n = 0
    THEN [score  |-> [j \in DOMAIN a |-> a[j].score],
          chain  |-> [j \in DOMAIN a |-> j],
          origin |-> [j \in DOMAIN a |-> j],
          cov    |-> [j \in DOMAIN a |-> a[j].len - 1]]
    ELSE LET ds == FullDP(a, n - 1, maxSep, sC, gC)
             k  == n - 1
         IN  FullScan(a, ds, k, FirstOnTarget(a, k), ds.score[k], maxSep, sC, gC)

\* the longest target of the corpora that show the window move
MaxWindowTLen == 4

\* the corpora of one target of up to MaxWindowTLen k-mers
WindowCorpora(L) ==
    { Z(<< t >>) : t \in UNION { Arrays(n, Codes(L)) : n \in 1..MaxWindowTLen } }

\* a query and the index of a longer target, built for K and step
WindowInit ==
    /\ \E ks \in KStepsWithin :
        LET L == Pow(ASize, ks[1])
        IN  \E corpus \in WindowCorpora(L), q \in Queries(L) :
                /\ par = [K |-> ks[1], step |-> ks[2], L |-> L, freqs |-> << >>,
                          sC |-> 0, gC |-> 0, type |-> 0, tot |-> 0,
                          minS |-> [na |-> TRUE, v |-> 0]]
                /\ ix = BuildIndex(corpus, L, ks[1], ks[2])
                /\ w = q
    /\ pc = "start"
    /\ width = 0
    /\ ch = << >>
    /\ gathered = << >>
    /\ hits = << >>
    /\ cs = << >>
    /\ anch = << >>
    /\ dp = << >>
    /\ score = << >>
    /\ cand = << >>
    /\ res = << >>
    /\ out = << >>
    /\ mats = << >>
    /\ BldIdle
    /\ DrvIdle

SpecWindow == WindowInit /\ [][ChainNext]_vars

\* C12: the DP with the window that the left pointer contracts gives every
\* anchor the score, chain, origin and cov of the DP over all the earlier
\* anchors of its target: no anchor left out of the window could be linked.
C12_WindowLosesNoLink ==
    pc = "chained" =>
        LET full == FullDP(anch, Size(anch), MaxSepOf(par.L), par.sC, par.gC)
        IN  /\ dp.score = full.score
            /\ dp.chain = full.chain
            /\ dp.origin = full.origin
            /\ dp.cov = full.cov

(***************************************************************************)
(* The recurrence of the chain DP                                          *)
(***************************************************************************)

\* the left pointer j when the sweep comes to anchor k
RECURSIVE LeftPointer(_, _, _)
LeftPointer(a, k, maxSep) ==
    IF k <= 1 THEN 0
    ELSE LET j == LeftPointer(a, k - 1, maxSep)
             far == { p \in j..(k - 2) :
                        a[k - 1].posTarget - a[p].posTarget - a[p].len > maxSep }
         IN  IF a[k - 1].set # a[j].set THEN k - 1
             ELSE IF far = {} THEN j
             ELSE CHOOSE p \in far : \A q \in far : q <= p

\* the anchors of the window of anchor k that k may be linked to
WindowLinks(a, k, maxSep) ==
    IF k = 0 THEN {}
    ELSE { p \in LeftPointer(a, k, maxSep)..(k - 1) : LinkConditions(a, p, k, maxSep) }

\* score[p] + s_k + gapCost[|deltaQ - deltaT|] + sepCost[min(deltaQ, deltaT)]
LinkValue(a, sc, p, k, sC, gC) ==
    LET deltaTarget == a[k].posTarget - a[p].posTarget - a[p].len
        deltaQuery  == a[k].posQuery - a[p].posQuery - a[p].len
        diff == IF deltaQuery > deltaTarget
                THEN deltaQuery - deltaTarget ELSE deltaTarget - deltaQuery
        least == IF deltaQuery > deltaTarget THEN deltaTarget ELSE deltaQuery
    IN  sc[p] + a[k].score + gC * SqrtMilli[diff] + sC * SqrtMilli[least]

\* the greatest of s_k and the values of the links of anchor k
BestValue(a, sc, k, maxSep, sC, gC) ==
    LET vals == { a[k].score }
                  \cup { LinkValue(a, sc, p, k, sC, gC) : p \in WindowLinks(a, k, maxSep) }
    IN  CHOOSE v \in vals : \A u \in vals : u <= v

\* the first anchor of the window whose link has the value best, or k
FirstAttaining(a, sc, k, best, maxSep, sC, gC) ==
    LET at == { p \in WindowLinks(a, k, maxSep) :
                    LinkValue(a, sc, p, k, sC, gC) = best }
    IN  IF best > a[k].score /\ at # {}
        THEN CHOOSE p \in at : \A q \in at : p <= q
        ELSE k

\* anchor k has the score, chain, origin and cov of the recurrence
Recurrence(k) ==
    LET maxSep == MaxSepOf(par.L)
        best == BestValue(anch, dp.score, k, maxSep, par.sC, par.gC)
        first == FirstAttaining(anch, dp.score, k, best, maxSep, par.sC, par.gC)
    IN  /\ dp.score[k] = best
        /\ dp.chain[k] = first
        /\ dp.origin[k] = IF first = k THEN k ELSE dp.origin[first]
        /\ dp.cov[k] = IF first = k THEN anch[k].len - 1
                       ELSE anch[k].len - 1 + dp.cov[first]

=============================================================================
